---- MODULE Spec2Model ----
(***************************************************************************)
(* A model of the blabber database: the storage layer (posts, comments,    *)
(* optimized strings) and the transaction driver that runs every public    *)
(* operation of the database handle inside one engine transaction.         *)
(*                                                                         *)
(* The files on disk are the database file and the journal file.  The      *)
(* transaction engine (prequel) is an external library; it is modelled by  *)
(* its contract: writes of a transaction become visible at commit(), are   *)
(* discarded by rollback(), committed changes live in the journal until a  *)
(* checkpoint copies them into the database file.                          *)
(***************************************************************************)
EXTENDS Integers, Sequences, FiniteSets, TLC

\* ---------------------------------------------------------------- bounds
MaxPosts == 2
MaxComments == 2
MaxFetch == 2
MaxThreads == 2

\* ------------------------------------------------------ program constants
FILE_FORMAT_MAGIC == "BLABBER_DB"
FILE_FORMAT_VERSION == 1
journal_checkpoint_threshold == 1048576
UserCapacity == 15
TitleCapacity == 31

\* ------------------------------------------------------------ byte strings
Bytes(n, b) == [i \in 1..n |-> b]

Min(S) == CHOOSE x \in S : \A y \in S : x <= y
Max(S) == CHOOSE x \in S : \A y \in S : x >= y

Reverse(s) == [i \in 1..Len(s) |-> s[Len(s) + 1 - i]]

\* fixed_cstring<N>(str): the bytes of str, zero padded to N bytes.
fixed_cstring(N, str) == [i \in 1..N |-> IF i <= Len(str) THEN str[i] ELSE 0]

\* fixed_cstring::size(): the offset of the first zero byte, or N.
fixed_cstring_size(data) ==
    LET zeros == {i \in 1..Len(data) : data[i] = 0}
    IN  IF zeros = {} THEN Len(data) ELSE Min(zeros) - 1

\* std::string(str.begin(), str.end())
fixed_cstring_string(data) == SubSeq(data, 1, fixed_cstring_size(data))

\* The two alternatives of optimized_string<Capacity>.
InlineString(data) == [kind |-> "inline", data |-> data, ref |-> 0]
HeapString(ref) == [kind |-> "heap", data |-> <<>>, ref |-> ref]

\* A byte string is the sequence of its bytes.  A string of 2^32 bytes and
\* more is written with a negative element for every run of 2^32 equal bytes,
\* followed by the remaining bytes of the same value, so that str.size() is
\* size_high(str) * 2^32 + size_low(str) and a prefix of the string is
\* determined by its length.
size_high(str) == Cardinality({i \in DOMAIN str : str[i] < 0})
size_low(str) == Len(str) - size_high(str)

\* str.size() > std::numeric_limits<u32>::max()
exceeds_u32(str) == size_high(str) > 0

\* The first str.size() mod 2^32 bytes: what a 32 bit size leaves of the string.
narrow_u32(str) == SelectSeq(str, LAMBDA b : b >= 0)

\* heap::allocate appends a blob; the reference is its position.  The size
\* is handed over as str.size(): a heap that takes a 32 bit size stores the
\* first str.size() mod 2^32 bytes.
store_string(h, str) == [heap |-> Append(h, narrow_u32(str)), ref |-> Len(h) + 1]

load_string(h, ref) == h[ref]

\* A store that inlines only strings shorter than the capacity.
store_optimized_string_strict(Capacity, h, str) ==
    IF exceeds_u32(str)
    THEN [heap |-> h, val |-> InlineString(<<>>), err |-> "StringTooLarge"]
    ELSE IF size_low(str) < Capacity
    THEN [heap |-> h, val |-> InlineString(fixed_cstring(Capacity, str)), err |-> ""]
    ELSE LET stored == store_string(h, str)
         IN  [heap |-> stored.heap, val |-> HeapString(stored.ref), err |-> ""]

store_optimized_string(Capacity, h, str) ==
    IF exceeds_u32(str)
    THEN [heap |-> h, val |-> InlineString(<<>>), err |-> "StringTooLarge"]
    ELSE IF size_low(str) <= Capacity
    THEN [heap |-> h, val |-> InlineString(fixed_cstring(Capacity, str)), err |-> ""]
    ELSE LET stored == store_string(h, str)
         IN  [heap |-> stored.heap, val |-> HeapString(stored.ref), err |-> ""]

load_optimized_string(h, str) ==
    IF str.kind = "inline" THEN fixed_cstring_string(str.data)
    ELSE load_string(h, str.ref)

\* --------------------------------------------------------------- inputs
\* The arguments of create_post and of create_comment in the specification of
\* the transaction driver: a short user name and a title of exactly the inline
\* capacity for a post, a user name one byte above the capacity for a comment.
PostInputs ==
    { [user |-> <<97>>, title |-> Bytes(TitleCapacity, 116), content |-> <<99>>] }
CommentInputs ==
    { [user |-> Bytes(UserCapacity + 1, 121), content |-> <<43, 49>>] }

\* The arguments in the specification of the stored data: a user name with a
\* zero byte, a title of exactly the inline capacity and one a byte longer.
DataPostInputs ==
    { [user |-> <<97>>, title |-> Bytes(TitleCapacity, 116), content |-> <<99>>],
      [user |-> <<97, 0, 98>>, title |-> Bytes(TitleCapacity + 1, 116), content |-> <<>>] }
DataCommentInputs ==
    { [user |-> <<120>>, content |-> <<110>>],
      [user |-> Bytes(UserCapacity + 1, 121), content |-> <<43, 49>>] }

\* The arguments in the specification of the size limit: strings of 2^32 + 2
\* and 2^32 + 1 bytes as the content and as the title of a post and as the
\* user name of a comment.
Huge(n) == <<-1>> \o Bytes(n, 120)
LargePostInputs ==
    { [user |-> <<97>>, title |-> <<104, 105>>, content |-> Huge(2)],
      [user |-> Bytes(UserCapacity + 1, 121), title |-> Huge(1), content |-> <<99>>] }
LargeCommentInputs ==
    { [user |-> Huge(1), content |-> <<43, 49>>] }

\* std::time(0): a valid time, or a negative value when the clock fails.
Times == {-1, 1000}

\* Where an operation is interrupted by an error of a lower layer.
Faults == {"none", "after_insert"}

\* What heap::allocate does with a size of 2^32 and more: it takes the size
\* with 32 bits ("none"), or it raises an error of its own.
HeapFaults == {"none", "heap_rejects"}

\* The values engine.journal_size() reports after a commit.
JournalSizes == {journal_checkpoint_threshold, journal_checkpoint_threshold + 1}

PostIds == 1..(MaxPosts + 1)
Threads == 1..MaxThreads
FetchCounts == 0..MaxFetch

\* ---------------------------------------------------------- file content
\* The database file as the engine presents it: the number of blocks, block
\* 0 (the master block) and the containers that live in the other blocks.
ZeroMaster == [magic |-> "", version |-> 0, next_post_id |-> 0]
EmptyFile == [size |-> 0, torn |-> FALSE, master |-> ZeroMaster, posts |-> {}, strings |-> <<>>]
\* A database file that a checkpoint was writing when the process stopped.
TornFile == [size |-> 1, torn |-> TRUE, master |-> ZeroMaster, posts |-> {}, strings |-> <<>>]


\* Files that were not written by this version of the program: another
\* magic (with the version of this program or another one), and the magic of
\* this program with another version.
ForeignFiles ==
    { [size |-> 1, torn |-> FALSE, posts |-> {}, strings |-> <<>>,
       master |-> [magic |-> mv[1], version |-> mv[2], next_post_id |-> 1]] :
      mv \in { <<"OTHER_DB", FILE_FORMAT_VERSION>>, <<"OTHER_DB", FILE_FORMAT_VERSION + 1>>,
               <<FILE_FORMAT_MAGIC, FILE_FORMAT_VERSION + 1>> } }

\* ------------------------------------------------------------ the storage
\* What an operation of the storage reports to the driver: the operation, the
\* error it raised ("" when it returned), the post id and the count it was
\* called with (for create_post the id it read from the anchor), its other
\* arguments and the value it returned.
Result(op, err, id, k, in, out) ==
    [op |-> op, err |-> err, id |-> id, k |-> k, in |-> in, out |-> out]
NoResult == Result("", "", 0, 0, <<>>, <<>>)

\* What a call of the storage leaves behind: the blocks as the transaction
\* sees them, the in-memory master block, whether the change flag of the
\* master block fired, and the result.
Outcome(blocks, m, changed, res) ==
    [blocks |-> blocks, master |-> m, changed |-> changed, res |-> res]

\* A create_post that stores the id it read instead of the next one.
u64_inc_same(x) == x

\* A u64 of 2^63 and more is written as the negative number that has the
\* same 64 bits: u64_top(n) is 2^64 - n.
u64_top(n) == 0 - n

\* a < b for two u64.
u64_less(a, b) == IF (a < 0) = (b < 0) THEN a < b ELSE b < 0

\* An addition that stays at 2^64 - 1.
u64_inc_saturating(x) == IF x = u64_top(1) THEN x ELSE x + 1

\* u64 addition: id + 1 modulo 2^64.
u64_inc(x) == IF x = u64_top(1) THEN 0 ELSE x + 1

\* btree::find
btree_has(posts, key) == \E p \in posts : p.id = key
btree_find(posts, key) == CHOOSE p \in posts : p.id = key

\* btree::insert keeps an existing entry with the same key.
btree_insert(posts, value) ==
    IF btree_has(posts, value.id) THEN posts ELSE posts \cup {value}

\* A cursor that inserts the value next to the entry it points to.
cursor_set_inserts(posts, old, value) == posts \cup {value}

\* cursor.set replaces the entry the cursor points to.
cursor_set(posts, old, value) == (posts \ {old}) \cup {value}

\* A cursor at seek_max walking with move_prev: the entries by descending
\* key, at most n of them.
RECURSIVE btree_walk_prev(_, _)
btree_walk_prev(posts, n) ==
    IF posts = {} \/ n = 0 THEN <<>>
    ELSE LET p == CHOOSE q \in posts : \A r \in posts : ~u64_less(q.id, r.id)
         IN  <<p>> \o btree_walk_prev(posts \ {p}, n - 1)

\* A cursor at seek_first walking with move_next: the elements from the head.
list_walk_next(list, n) ==
    LET m == IF n < Len(list) THEN n ELSE Len(list)
    IN  [i \in 1..m |-> list[m + 1 - i]]

\* A cursor at seek_last walking with move_prev: the elements from the tail
\* of the list, at most n of them.
list_walk_prev(list, n) ==
    LET m == IF n < Len(list) THEN n ELSE Len(list)
    IN  [i \in 1..m |-> list[Len(list) + 1 - i]]

\* A cursor that takes the elements it visits out of the list.
list_anchor_after_walk_pops(list, n) ==
    SubSeq(list, 1, Len(list) - Len(list_walk_prev(list, n)))

\* The list behind the anchor when the cursor has walked and the list is
\* closed: create_cursor, get and move_prev read the list.
list_anchor_after_walk(list, n) == list

TotalComments(posts) ==
    LET RECURSIVE Sum(_)
        Sum(S) == IF S = {} THEN 0
                  ELSE LET p == CHOOSE q \in S : TRUE
                       IN  Len(p.comments) + Sum(S \ {p})
    IN  Sum(posts)

create_post(blocks, m, in, now, fault) ==
    LET id == m.next_post_id
    IN  IF id = 0
        THEN Outcome(blocks, m, FALSE, Result("create_post", "IdSpaceExhausted", id, 0, in, <<>>))
        ELSE IF now < 0
        THEN Outcome(blocks, m, FALSE, Result("create_post", "ClockError", id, 0, in, <<>>))
        ELSE
        LET user == store_optimized_string(UserCapacity, blocks.strings, in.user)
            title == store_optimized_string(TitleCapacity, user.heap, in.title)
            content == store_string(title.heap, in.content)
            new_post == [id |-> id, created_at |-> now, user |-> user.val,
                         title |-> title.val, content |-> content.ref,
                         comments |-> <<>>]
            inserted == [blocks EXCEPT !.strings = content.heap,
                                       !.posts = btree_insert(@, new_post)]
        IN  IF user.err # ""
            THEN Outcome(blocks, m, FALSE, Result("create_post", user.err, id, 0, in, <<>>))
            ELSE IF title.err # ""
            THEN Outcome([blocks EXCEPT !.strings = user.heap], m, user.heap # blocks.strings,
                         Result("create_post", title.err, id, 0, in, <<>>))
            ELSE IF exceeds_u32(in.content) /\ fault = "heap_rejects"
            THEN Outcome([blocks EXCEPT !.strings = title.heap], m, title.heap # blocks.strings,
                         Result("create_post", "HeapError", id, 0, in, <<>>))
            ELSE IF fault = "after_insert"
            THEN Outcome(inserted, m, TRUE,
                         Result("create_post", "IOError", id, 0, in, <<>>))
            ELSE Outcome(inserted, [m EXCEPT !.next_post_id = u64_inc(id)], TRUE,
                         Result("create_post", "", id, 0, in, id))

create_comment(blocks, m, post_id, in, now, fault) ==
    IF ~btree_has(blocks.posts, post_id)
    THEN Outcome(blocks, m, FALSE, Result("create_comment", "NotFound", post_id, 0, in, <<>>))
    ELSE IF now < 0
    THEN Outcome(blocks, m, FALSE, Result("create_comment", "ClockError", post_id, 0, in, <<>>))
    ELSE
    LET found_post == btree_find(blocks.posts, post_id)
        user == store_optimized_string(UserCapacity, blocks.strings, in.user)
        content == store_string(user.heap, in.content)
        new_comment == [created_at |-> now, user |-> user.val, content |-> content.ref]
        changed_post == [found_post EXCEPT !.comments = Append(@, new_comment)]
        allocated == [blocks EXCEPT !.strings = content.heap]
    IN  IF user.err # ""
        THEN Outcome(blocks, m, FALSE, Result("create_comment", user.err, post_id, 0, in, <<>>))
        ELSE IF exceeds_u32(in.content) /\ fault = "heap_rejects"
        THEN Outcome([blocks EXCEPT !.strings = user.heap], m, user.heap # blocks.strings,
                     Result("create_comment", "HeapError", post_id, 0, in, <<>>))
        ELSE IF fault = "after_insert"
        THEN Outcome(allocated, m, TRUE,
                     Result("create_comment", "IOError", post_id, 0, in, <<>>))
        ELSE Outcome([allocated EXCEPT !.posts = cursor_set(@, found_post, changed_post)],
                     m, TRUE, Result("create_comment", "", post_id, 0, in, <<>>))

post_entry(h, p) ==
    [id |-> p.id, created_at |-> p.created_at,
     user |-> load_optimized_string(h, p.user),
     title |-> load_optimized_string(h, p.title)]

comment_entry(h, c) ==
    [created_at |-> c.created_at,
     user |-> load_optimized_string(h, c.user),
     content |-> load_string(h, c.content)]

\* A fetch_frontpage that takes the posts it returns out of the tree.
fetch_frontpage_consumes(blocks, m, max_posts) ==
    LET found_posts == Reverse(btree_walk_prev(blocks.posts, max_posts))
        entries == [i \in 1..Len(found_posts) |-> post_entry(blocks.strings, found_posts[i])]
    IN  Outcome([blocks EXCEPT !.posts = @ \ {found_posts[i] : i \in 1..Len(found_posts)}],
                m, found_posts # <<>>,
                Result("fetch_frontpage", "", 0, max_posts, <<>>, entries))

fetch_frontpage(blocks, m, max_posts) ==
    LET found_posts == Reverse(btree_walk_prev(blocks.posts, max_posts))
        entries == [i \in 1..Len(found_posts) |-> post_entry(blocks.strings, found_posts[i])]
    IN  Outcome(blocks, m, FALSE, Result("fetch_frontpage", "", 0, max_posts, <<>>, entries))

\* A fetch_post that returns an empty post for an id that is not in the tree.
fetch_post_missing_is_empty(blocks, m, post_id, max_comments) ==
    IF ~btree_has(blocks.posts, post_id)
    THEN Outcome(blocks, m, FALSE,
                 Result("fetch_post", "", post_id, max_comments, <<>>,
                        [id |-> post_id, created_at |-> 0, user |-> <<>>, title |-> <<>>,
                         content |-> <<>>, comments |-> <<>>]))
    ELSE
    LET found_post == btree_find(blocks.posts, post_id)
        found_comments == Reverse(list_walk_prev(found_post.comments, max_comments))
        result == [id |-> found_post.id, created_at |-> found_post.created_at,
                   user |-> load_optimized_string(blocks.strings, found_post.user),
                   title |-> load_optimized_string(blocks.strings, found_post.title),
                   content |-> load_string(blocks.strings, found_post.content),
                   comments |-> [i \in 1..Len(found_comments) |->
                                    comment_entry(blocks.strings, found_comments[i])]]
    IN  Outcome(blocks, m, FALSE,
                Result("fetch_post", "", post_id, max_comments, <<>>, result))

fetch_post(blocks, m, post_id, max_comments) ==
    IF ~btree_has(blocks.posts, post_id)
    THEN Outcome(blocks, m, FALSE,
                 Result("fetch_post", "NotFound", post_id, max_comments, <<>>, <<>>))
    ELSE
    LET found_post == btree_find(blocks.posts, post_id)
        found_comments == Reverse(list_walk_prev(found_post.comments, max_comments))
        result == [id |-> found_post.id, created_at |-> found_post.created_at,
                   user |-> load_optimized_string(blocks.strings, found_post.user),
                   title |-> load_optimized_string(blocks.strings, found_post.title),
                   content |-> load_string(blocks.strings, found_post.content),
                   comments |-> [i \in 1..Len(found_comments) |->
                                    comment_entry(blocks.strings, found_comments[i])]]
        post_changed == list_anchor_after_walk(found_post.comments, max_comments)
                            # found_post.comments
    IN  IF post_changed
        THEN Outcome(blocks, m, FALSE,
                     Result("fetch_post", "InternalInvariant", post_id, max_comments, <<>>, <<>>))
        ELSE Outcome(blocks, m, FALSE,
                     Result("fetch_post", "", post_id, max_comments, <<>>, result))

dump(blocks, m) == Outcome(blocks, m, FALSE, Result("dump", "", 0, 0, <<>>, <<>>))


\* ---------------------------------------------------------------- state
VARIABLES
    db_file,          \* the database file on disk
    journal_exists,   \* whether the journal file is on disk
    journal,          \* the committed changes in the journal: <<>> or <<content>>
    pc,               \* where the handle is in the operation it executes
    m_open,           \* database::m_open
    m_engine,         \* database::m_engine: "null" or "live"
    in_txn,           \* whether the engine has an open transaction
    txn,              \* the blocks as the open transaction sees them
    master,           \* the in-memory copy of the master block
    master_changed,   \* the change flag of the master block
    fn_res,           \* the result of the storage operation that ran
    ret,              \* what the public operation hands to its caller
    ckpt_for,         \* who runs the checkpoint: "open", "txn" or "finish"
    calls,            \* the engine calls of the current operation, in order
    last_committed,   \* the content written by the last engine.commit()
    created_ids,      \* the ids returned by create_post, in call order
    last_created,     \* the create_post that returned last, if no call followed
    failed_id,        \* the id of a rolled back create_post, until one succeeds
    reopen_kind,      \* how the handle was opened: "fresh", "clean", "recovery"
    engine_misuse,    \* whether a released engine was used
    journal_size,     \* what engine.journal_size() returned after the commit
    handles,          \* the live handles of the driver: block 0, allocator, store
    held_at_end,      \* the handles that were live at a commit() or rollback()
    wrote_master,     \* whether the transaction executed first_block.set(0, master)
    gil,              \* the thread that holds the interpreter lock, or 0
    m_mutex,          \* the thread that holds py_database::m_mutex, or 0
    t_pc,             \* where each host thread is in py_database::exec
    t_op,             \* the public operation each host thread executes
    t_txn,            \* the blocks as the transaction of each thread sees them
    t_ret,            \* what the operation of each thread hands to its caller
    overlap           \* whether begin() was called while a transaction was open

vars == <<db_file, journal_exists, journal, pc, m_open, m_engine, in_txn, txn,
          master, master_changed, fn_res, ret, ckpt_for, calls,
          last_committed, created_ids, last_created, failed_id, reopen_kind,
          engine_misuse, journal_size, handles, held_at_end, wrote_master,
          gil, m_mutex, t_pc, t_op, t_txn, t_ret, overlap>>

files == <<db_file, journal_exists, journal>>
txn_locals == <<txn, master, master_changed, fn_res>>
history == <<last_committed, created_ids, last_created, failed_id>>
scopes == <<handles, held_at_end, wrote_master>>
thread_vars == <<gil, m_mutex, t_pc, t_op, t_txn, t_ret, overlap>>

\* What the engine presents: the committed changes of the journal lie over
\* the database file (also after a recovery from the journal).
View == IF journal # <<>> THEN journal[1] ELSE db_file

\* engine.journal_has_changes()
journal_has_changes == journal # <<>>

\* A use of m_engine: using it after reset() is an error.
UseEngine == engine_misuse' = (engine_misuse \/ m_engine # "live")

Init ==
    /\ db_file = EmptyFile
    /\ journal_exists = FALSE
    /\ journal = <<>>
    /\ pc = "nohandle"
    /\ m_open = FALSE
    /\ m_engine = "null"
    /\ in_txn = FALSE
    /\ txn = EmptyFile
    /\ master = ZeroMaster
    /\ master_changed = FALSE
    /\ fn_res = NoResult
    /\ ret = NoResult
    /\ ckpt_for = ""
    /\ calls = <<>>
    /\ last_committed = EmptyFile
    /\ created_ids = <<>>
    /\ last_created = NoResult
    /\ failed_id = 0
    /\ reopen_kind = ""
    /\ engine_misuse = FALSE
    /\ journal_size = 0
    /\ handles = {}
    /\ held_at_end = {}
    /\ wrote_master = FALSE
    /\ gil = 0
    /\ m_mutex = 0
    /\ t_pc = [t \in Threads |-> "nogil"]
    /\ t_op = [t \in Threads |-> ""]
    /\ t_txn = [t \in Threads |-> EmptyFile]
    /\ t_ret = [t \in Threads |-> NoResult]
    /\ overlap = FALSE

\* ------------------------------------------------------- opening a handle
\* An open that creates the journal file anew instead of reading it.
open_truncates_journal ==
    /\ pc = "nohandle"
    /\ journal_exists' = TRUE
    /\ journal' = <<>>
    /\ m_engine' = "live"
    /\ reopen_kind' = IF journal_exists THEN "recovery"
                      ELSE IF db_file.size = 0 THEN "fresh" ELSE "clean"
    /\ pc' = IF db_file.size = 0 THEN "init_master_block" ELSE "check_master_block"
    /\ calls' = <<>>
    /\ ret' = NoResult
    /\ UNCHANGED <<db_file, m_open, in_txn, txn_locals, ckpt_for,
                   history, engine_misuse>>
    /\ UNCHANGED <<journal_size, scopes, thread_vars>>

\* An open that initializes the master block whatever the size of the file.
open_always_initializes ==
    /\ pc = "nohandle"
    /\ journal_exists' = TRUE
    /\ m_engine' = "live"
    /\ reopen_kind' = IF journal_exists THEN "recovery"
                      ELSE IF db_file.size = 0 THEN "fresh" ELSE "clean"
    /\ pc' = "init_master_block"
    /\ calls' = <<>>
    /\ ret' = NoResult
    /\ UNCHANGED <<db_file, journal, m_open, in_txn, txn_locals, ckpt_for,
                   history, engine_misuse>>
    /\ UNCHANGED <<journal_size, scopes, thread_vars>>

\* database::database and database::open up to the test of engine.size():
\* both files are opened (and created when missing), the engine recovers the
\* committed changes from the journal.
open ==
    /\ pc = "nohandle"
    /\ journal_exists' = TRUE
    /\ m_engine' = "live"
    /\ reopen_kind' = IF journal_exists THEN "recovery"
                      ELSE IF db_file.size = 0 THEN "fresh" ELSE "clean"
    /\ pc' = IF View.size = 0 THEN "init_master_block" ELSE "check_master_block"
    /\ calls' = <<>>
    /\ ret' = NoResult
    /\ UNCHANGED <<db_file, journal, m_open, in_txn, txn_locals, ckpt_for,
                   history, engine_misuse>>
    /\ UNCHANGED <<journal_size, scopes, thread_vars>>

\* The master block that init_master_block writes: the header and the
\* default anchors.
InitialMaster ==
    [magic |-> FILE_FORMAT_MAGIC, version |-> FILE_FORMAT_VERSION, next_post_id |-> 1]
InitialFile ==
    [size |-> 1, torn |-> FALSE, master |-> InitialMaster, posts |-> {}, strings |-> <<>>]

\* database::init_master_block up to commit(); the checkpoint follows.
init_master_block ==
    /\ pc = "init_master_block"
    /\ UseEngine
    /\ journal' = <<InitialFile>>
    /\ last_committed' = InitialFile
    /\ calls' = <<"begin", "commit">>
    /\ ckpt_for' = "open"
    /\ pc' = "checkpoint"
    /\ UNCHANGED <<db_file, journal_exists, m_open, m_engine, in_txn, txn_locals,
                   ret, created_ids, last_created, failed_id, reopen_kind>>
    /\ UNCHANGED <<journal_size, scopes, thread_vars>>

\* A check_header that tests the version before the magic.
check_header_version_first(header) ==
    IF header.version # FILE_FORMAT_VERSION THEN "UnsupportedVersion"
    ELSE IF header.magic # FILE_FORMAT_MAGIC THEN "InvalidFormat"
    ELSE ""

\* database::check_header
check_header(header) ==
    IF header.magic # FILE_FORMAT_MAGIC THEN "InvalidFormat"
    ELSE IF header.version # FILE_FORMAT_VERSION THEN "UnsupportedVersion"
    ELSE ""

\* database::check_master_block: when check_header throws, the constructor
\* throws and no handle exists.
check_master_block ==
    /\ pc = "check_master_block"
    /\ UseEngine
    /\ LET err == check_header(View.master)
       IN  IF err # ""
           THEN /\ pc' = "nohandle"
                /\ m_engine' = "null"
                /\ ret' = Result("open", err, 0, 0, <<>>, <<>>)
                /\ calls' = <<"begin">>
                /\ reopen_kind' = ""
           ELSE /\ pc' = "opened"
                /\ calls' = <<"begin", "commit">>
                /\ UNCHANGED <<m_engine, ret, reopen_kind>>
    /\ UNCHANGED <<files, m_open, in_txn, txn_locals, ckpt_for, history>>
    /\ UNCHANGED <<journal_size, scopes, thread_vars>>

\* The last statement of database::open.
opened ==
    /\ pc = "opened"
    /\ m_open' = TRUE
    /\ pc' = "idle"
    /\ calls' = <<>>
    /\ UNCHANGED <<files, m_engine, in_txn, txn_locals, ret, ckpt_for,
                   history, reopen_kind, engine_misuse>>
    /\ UNCHANGED <<journal_size, scopes, thread_vars>>


\* -------------------------------------------------- the transaction driver
\* A driver that begins a transaction without the test of m_open.
run_in_transaction_unchecked ==
    /\ pc = "idle"
    /\ reopen_kind' = ""
    /\ UseEngine
    /\ in_txn' = TRUE
    /\ calls' = Append(calls, "begin")
    /\ txn' = View
    /\ master' = View.master
    /\ master_changed' = FALSE
    /\ pc' = "fn"
    /\ UNCHANGED <<fn_res, ret>>
    /\ UNCHANGED <<files, m_open, m_engine, ckpt_for, history>>
    /\ wrote_master' = FALSE
    /\ handles' = {"first_block"}
    /\ UNCHANGED <<journal_size, held_at_end, thread_vars>>

\* The handles that live in the scope around fn(store): the allocator and the
\* store view (with the tree and the heap it holds).
fn_scope(h) == h \cup {"alloc", "store"}

\* The inner scope ends when fn returns.
end_fn_scope(h) == h \ {"alloc", "store"}

\* A block 0 handle that lives until the end of run_in_transaction.
end_block_scope_late(h) == h

\* The outer scope ends after the write back: the handle of block 0 is dropped.
end_block_scope(h) == h \ {"first_block"}

\* An exception leaves the try block: every local of the block is destroyed
\* before the catch block runs.
unwind(h) == h \ {"first_block", "alloc", "store"}

\* A test that also runs the checkpoint at exactly the threshold.
needs_checkpoint_at_threshold(size) == size >= journal_checkpoint_threshold

\* if (m_engine->journal_size() > journal_checkpoint_threshold)
needs_checkpoint(size) == size > journal_checkpoint_threshold

\* database::run_in_transaction up to the call of fn: the test of m_open,
\* engine.begin(), the read of block 0 and the fresh change flag.
run_in_transaction ==
    /\ pc = "idle"
    /\ reopen_kind' = ""
    /\ IF ~m_open
       THEN /\ pc' = "return"
            /\ ret' = Result("run_in_transaction", "ShutDown", 0, 0, <<>>, <<>>)
            /\ UNCHANGED <<in_txn, txn_locals, calls, engine_misuse>>
       ELSE /\ UseEngine
            /\ in_txn' = TRUE
            /\ calls' = Append(calls, "begin")
            /\ txn' = View
            /\ master' = View.master
            /\ master_changed' = FALSE
            /\ pc' = "fn"
            /\ UNCHANGED <<fn_res, ret>>
    /\ UNCHANGED <<files, m_open, m_engine, ckpt_for, history>>
    /\ wrote_master' = FALSE
    /\ handles' = IF m_open THEN {"first_block"} ELSE handles
    /\ UNCHANGED <<journal_size, held_at_end, thread_vars>>

\* fn(store): the storage operation runs on the blocks of the transaction
\* and on the in-memory master block.
RunFn(outcome) ==
    /\ pc = "fn"
    /\ txn' = outcome.blocks
    /\ master' = outcome.master
    /\ master_changed' = outcome.changed
    /\ fn_res' = outcome.res
    /\ pc' = "fn_returned"
    /\ UNCHANGED <<files, m_open, m_engine, in_txn, ret, ckpt_for, calls,
                   history, reopen_kind, engine_misuse>>
    /\ UNCHANGED wrote_master
    /\ handles' = IF outcome.res.err = "" THEN end_fn_scope(fn_scope(handles))
                                         ELSE fn_scope(handles)
    /\ UNCHANGED <<journal_size, held_at_end, thread_vars>>

CreatePostOf(Inputs) ==
    \E in \in Inputs, now \in Times, fault \in Faults :
        /\ master.next_post_id <= MaxPosts
        /\ RunFn(create_post(txn, master, in, now, fault))

CreateCommentOf(Inputs) ==
    \E post_id \in PostIds, in \in Inputs, now \in Times, fault \in Faults :
        /\ TotalComments(txn.posts) < MaxComments
        /\ RunFn(create_comment(txn, master, post_id, in, now, fault))

CreatePostLarge ==
    \E in \in LargePostInputs, fault \in HeapFaults :
        /\ master.next_post_id <= MaxPosts
        /\ RunFn(create_post(txn, master, in, 1000, fault))

CreateCommentLarge ==
    \E post_id \in PostIds, in \in LargeCommentInputs, fault \in HeapFaults :
        /\ TotalComments(txn.posts) < MaxComments
        /\ RunFn(create_comment(txn, master, post_id, in, 1000, fault))

CreatePost == CreatePostOf(PostInputs)
CreateComment == CreateCommentOf(CommentInputs)
CreatePostData == CreatePostOf(DataPostInputs)
CreateCommentData == CreateCommentOf(DataCommentInputs)

FetchFrontpage ==
    \E max_posts \in FetchCounts : RunFn(fetch_frontpage(txn, master, max_posts))

FetchPost ==
    \E post_id \in PostIds, max_comments \in FetchCounts :
        RunFn(fetch_post(txn, master, post_id, max_comments))

Dump == RunFn(dump(txn, master))

\* A driver that never writes the master block back.
write_back_never(blocks, m, changed) == blocks

\* A write back of the anchors that leaves the header of the block out.
write_back_anchor_only(blocks, m, changed) ==
    IF changed
    THEN [blocks EXCEPT !.master = [ZeroMaster EXCEPT !.next_post_id = m.next_post_id]]
    ELSE blocks

\* A driver that writes block 0 in every transaction.
writes_block0_always(changed) == TRUE

\* if (master_changed): whether first_block.set(0, master) is executed.
writes_block0(changed) == changed

\* first_block.set(0, master) when the change flag fired.
write_back(blocks, m, changed) ==
    IF changed THEN [blocks EXCEPT !.master = m] ELSE blocks

\* What the caller keeps of a result once the transaction has ended: the
\* operation, the error and the id; the fetched values were handed over when
\* the storage operation returned.
Returned(res) ==
    Result(res.op, res.err, IF res.op = "create_post" THEN res.id ELSE 0, 0, <<>>, <<>>)

\* The normal exit of the try block: the scopes end, the master block is
\* written back, engine.commit(); then the test of engine.journal_size().
commit ==
    /\ pc = "fn_returned"
    /\ fn_res.err = ""
    /\ UseEngine
    /\ LET written == write_back(txn, master, writes_block0(master_changed))
       IN  /\ journal' = IF written # View THEN <<written>> ELSE journal
           /\ last_committed' = written
    /\ in_txn' = FALSE
    /\ calls' = Append(calls, "commit")
    /\ created_ids' = IF fn_res.op = "create_post"
                      THEN Append(created_ids, fn_res.out) ELSE created_ids
    /\ last_created' = IF fn_res.op = "create_post" THEN fn_res ELSE NoResult
    /\ ret' = Returned(fn_res)
    /\ fn_res' = NoResult
    /\ txn' = EmptyFile
    /\ master' = ZeroMaster
    /\ master_changed' = FALSE
    /\ \E size \in JournalSizes :
          /\ journal_size' = size
          /\ IF needs_checkpoint(size)
             THEN pc' = "checkpoint" /\ ckpt_for' = "txn"
             ELSE pc' = "return" /\ UNCHANGED ckpt_for
    /\ UNCHANGED <<db_file, journal_exists, m_open, m_engine, failed_id, reopen_kind>>
    /\ wrote_master' = writes_block0(master_changed)
    /\ handles' = end_block_scope(handles)
    /\ held_at_end' = held_at_end \cup end_block_scope(handles)
    /\ UNCHANGED <<thread_vars>>

\* A catch block that ends the transaction with commit() instead of rollback().
rollback_commits ==
    /\ pc = "fn_returned"
    /\ fn_res.err # ""
    /\ UseEngine
    /\ in_txn' = FALSE
    /\ calls' = Append(calls, "commit")
    /\ journal' = IF txn # View THEN <<txn>> ELSE journal
    /\ ret' = Returned(fn_res)
    /\ failed_id' = IF fn_res.op = "create_post" /\ fn_res.err = "IOError"
                    THEN fn_res.id ELSE failed_id
    /\ last_created' = NoResult
    /\ txn' = EmptyFile
    /\ master' = ZeroMaster
    /\ master_changed' = FALSE
    /\ pc' = "return"
    /\ UNCHANGED <<db_file, journal_exists, m_open, m_engine, fn_res, ckpt_for,
                   last_committed, created_ids, reopen_kind>>
    /\ wrote_master' = FALSE
    /\ handles' = unwind(handles)
    /\ held_at_end' = held_at_end \cup unwind(handles)
    /\ UNCHANGED <<journal_size, thread_vars>>

\* A catch block that does not throw the error again.
rollback_swallows ==
    /\ pc = "fn_returned"
    /\ fn_res.err # ""
    /\ UseEngine
    /\ in_txn' = FALSE
    /\ calls' = Append(calls, "rollback")
    /\ ret' = Result(fn_res.op, "", 0, 0, <<>>, <<>>)
    /\ failed_id' = IF fn_res.op = "create_post" /\ fn_res.err = "IOError"
                    THEN fn_res.id ELSE failed_id
    /\ last_created' = NoResult
    /\ txn' = EmptyFile
    /\ master' = ZeroMaster
    /\ master_changed' = FALSE
    /\ pc' = "return"
    /\ UNCHANGED <<files, m_open, m_engine, fn_res, ckpt_for,
                   last_committed, created_ids, reopen_kind>>
    /\ wrote_master' = FALSE
    /\ handles' = unwind(handles)
    /\ held_at_end' = held_at_end \cup unwind(handles)
    /\ UNCHANGED <<journal_size, thread_vars>>

\* A catch block that throws the error again without engine.rollback().
rollback_skipped ==
    /\ pc = "fn_returned"
    /\ fn_res.err # ""
    /\ UseEngine
    /\ ret' = Returned(fn_res)
    /\ failed_id' = IF fn_res.op = "create_post" /\ fn_res.err = "IOError"
                    THEN fn_res.id ELSE failed_id
    /\ last_created' = NoResult
    /\ txn' = EmptyFile
    /\ master' = ZeroMaster
    /\ master_changed' = FALSE
    /\ pc' = "return"
    /\ UNCHANGED <<files, m_open, m_engine, in_txn, fn_res, ckpt_for, calls,
                   last_committed, created_ids, reopen_kind>>
    /\ wrote_master' = FALSE
    /\ handles' = unwind(handles)
    /\ held_at_end' = held_at_end \cup unwind(handles)
    /\ UNCHANGED <<journal_size, thread_vars>>

\* The catch block: engine.rollback() and the error is thrown again.
rollback ==
    /\ pc = "fn_returned"
    /\ fn_res.err # ""
    /\ UseEngine
    /\ in_txn' = FALSE
    /\ calls' = Append(calls, "rollback")
    /\ ret' = Returned(fn_res)
    /\ failed_id' = IF fn_res.op = "create_post" /\ fn_res.err = "IOError"
                    THEN fn_res.id ELSE failed_id
    /\ last_created' = NoResult
    /\ txn' = EmptyFile
    /\ master' = ZeroMaster
    /\ master_changed' = FALSE
    /\ pc' = "return"
    /\ UNCHANGED <<files, m_open, m_engine, fn_res, ckpt_for,
                   last_committed, created_ids, reopen_kind>>
    /\ wrote_master' = FALSE
    /\ handles' = unwind(handles)
    /\ held_at_end' = held_at_end \cup unwind(handles)
    /\ UNCHANGED <<journal_size, thread_vars>>

\* engine.checkpoint() copies the committed changes of the journal into the
\* database file ...
checkpoint ==
    /\ pc = "checkpoint"
    /\ UseEngine
    /\ calls' = Append(calls, "checkpoint")
    /\ db_file' = IF journal # <<>> THEN TornFile ELSE db_file
    /\ pc' = "checkpoint_end"
    /\ UNCHANGED <<journal_exists, journal, m_open, m_engine, in_txn, txn_locals, ret,
                   ckpt_for, history, reopen_kind>>
    /\ UNCHANGED <<journal_size, scopes, thread_vars>>

\* ... and empties the journal when the copy is complete.
checkpoint_end ==
    /\ pc = "checkpoint_end"
    /\ db_file' = IF journal # <<>> THEN journal[1] ELSE db_file
    /\ journal' = <<>>
    /\ pc' = CASE ckpt_for = "open" -> "opened"
               [] ckpt_for = "finish" -> "release"
               [] OTHER -> "return"
    /\ ckpt_for' = ""
    /\ UNCHANGED <<journal_exists, m_open, m_engine, in_txn, txn_locals, ret, calls,
                   history, reopen_kind, engine_misuse>>
    /\ UNCHANGED <<journal_size, scopes, thread_vars>>

\* The public operation returns to (or throws into) its caller.
return ==
    /\ pc = "return"
    /\ pc' = "idle"
    /\ failed_id' = IF ret.op = "create_post" /\ ret.err = "" THEN 0 ELSE failed_id
    /\ ret' = NoResult
    /\ fn_res' = NoResult
    /\ calls' = <<>>
    /\ UNCHANGED <<files, m_open, m_engine, in_txn, txn, master, master_changed,
                   ckpt_for, last_committed, created_ids, last_created, reopen_kind,
                   engine_misuse>>
    /\ journal_size' = 0
    /\ wrote_master' = FALSE
    /\ UNCHANGED <<handles, held_at_end, thread_vars>>

\* ------------------------------------------------------------- shutting down
\* A finish that releases the engine without the checkpoint.
finish_no_checkpoint ==
    /\ pc = "idle"
    /\ reopen_kind' = ""
    /\ IF ~m_open
       THEN /\ pc' = "return"
            /\ ret' = Result("finish", "AlreadyClosed", 0, 0, <<>>, <<>>)
            /\ UNCHANGED <<m_open, ckpt_for, engine_misuse>>
       ELSE /\ m_open' = FALSE
            /\ UseEngine
            /\ ret' = Result("finish", "", 0, 0, <<>>, <<>>)
            /\ pc' = "release" /\ UNCHANGED ckpt_for
    /\ UNCHANGED <<files, m_engine, in_txn, txn_locals, calls, history>>
    /\ UNCHANGED <<journal_size, scopes, thread_vars>>

\* A finish that runs the checkpoint when the journal has no changes.
finish_inverted ==
    /\ pc = "idle"
    /\ reopen_kind' = ""
    /\ IF ~m_open
       THEN /\ pc' = "return"
            /\ ret' = Result("finish", "AlreadyClosed", 0, 0, <<>>, <<>>)
            /\ UNCHANGED <<m_open, ckpt_for, engine_misuse>>
       ELSE /\ m_open' = FALSE
            /\ UseEngine
            /\ ret' = Result("finish", "", 0, 0, <<>>, <<>>)
            /\ IF ~journal_has_changes
               THEN pc' = "checkpoint" /\ ckpt_for' = "finish"
               ELSE pc' = "release" /\ UNCHANGED ckpt_for
    /\ UNCHANGED <<files, m_engine, in_txn, txn_locals, calls, history>>
    /\ UNCHANGED <<journal_size, scopes, thread_vars>>

\* database::finish up to the checkpoint.
\* A finish that does not clear the open flag before its checkpoint.
finish_clears_late ==
    /\ pc = "idle"
    /\ reopen_kind' = ""
    /\ IF ~m_open
       THEN /\ pc' = "return"
            /\ ret' = Result("finish", "AlreadyClosed", 0, 0, <<>>, <<>>)
            /\ UNCHANGED <<m_open, ckpt_for, engine_misuse>>
       ELSE /\ m_open' = IF journal_has_changes THEN m_open ELSE FALSE
            /\ UseEngine
            /\ ret' = Result("finish", "", 0, 0, <<>>, <<>>)
            /\ IF journal_has_changes
               THEN pc' = "checkpoint" /\ ckpt_for' = "finish"
               ELSE pc' = "release" /\ UNCHANGED ckpt_for
    /\ UNCHANGED <<files, m_engine, in_txn, txn_locals, calls, history>>
    /\ UNCHANGED <<journal_size, scopes, thread_vars>>

\* database::finish up to the checkpoint: the test and the clearing of
\* m_open, then the test of journal_has_changes().
finish ==
    /\ pc = "idle"
    /\ reopen_kind' = ""
    /\ IF ~m_open
       THEN /\ pc' = "return"
            /\ ret' = Result("finish", "AlreadyClosed", 0, 0, <<>>, <<>>)
            /\ UNCHANGED <<m_open, ckpt_for, engine_misuse>>
       ELSE /\ m_open' = FALSE
            /\ UseEngine
            /\ ret' = Result("finish", "", 0, 0, <<>>, <<>>)
            /\ IF journal_has_changes
               THEN pc' = "checkpoint" /\ ckpt_for' = "finish"
               ELSE pc' = "release" /\ UNCHANGED ckpt_for
    /\ UNCHANGED <<files, m_engine, in_txn, txn_locals, calls, history>>
    /\ UNCHANGED <<journal_size, scopes, thread_vars>>

\* database::finish after the checkpoint: the engine and both files are
\* released ...
release ==
    /\ pc = "release"
    /\ m_engine' = "null"
    /\ pc' = "remove_journal"
    /\ UNCHANGED <<files, m_open, in_txn, txn_locals, ret, ckpt_for, calls,
                   history, reopen_kind, engine_misuse>>
    /\ UNCHANGED <<journal_size, scopes, thread_vars>>

\* ... and the journal file is removed, with whatever it holds.
remove_journal ==
    /\ pc = "remove_journal"
    /\ journal_exists' = FALSE
    /\ journal' = <<>>
    /\ pc' = "return"
    /\ UNCHANGED <<db_file, m_open, m_engine, in_txn, txn_locals, ret, ckpt_for, calls,
                   history, reopen_kind, engine_misuse>>
    /\ UNCHANGED <<journal_size, scopes, thread_vars>>

\* The process stops, or the handle is destroyed: what is in memory is gone,
\* the files stay as they are.
crash ==
    /\ pc # "nohandle"
    /\ pc' = "nohandle"
    /\ m_open' = FALSE
    /\ m_engine' = "null"
    /\ in_txn' = FALSE
    /\ txn' = EmptyFile
    /\ master' = ZeroMaster
    /\ master_changed' = FALSE
    /\ fn_res' = NoResult
    /\ ret' = NoResult
    /\ ckpt_for' = ""
    /\ calls' = <<>>
    /\ last_created' = NoResult
    /\ failed_id' = IF ret.op = "create_post" /\ ret.err = "" THEN 0 ELSE failed_id
    /\ reopen_kind' = ""
    /\ UNCHANGED <<files, last_committed, created_ids, engine_misuse>>
    /\ journal_size' = 0
    /\ wrote_master' = FALSE
    /\ handles' = {}
    /\ UNCHANGED <<held_at_end, thread_vars>>

\* The steps that take no strings from the caller.
Driver ==
    \/ open
    \/ init_master_block
    \/ check_master_block
    \/ opened
    \/ run_in_transaction
    \/ FetchFrontpage
    \/ FetchPost
    \/ Dump
    \/ commit
    \/ rollback
    \/ checkpoint
    \/ checkpoint_end
    \/ return
    \/ finish
    \/ release
    \/ remove_journal
    \/ crash

Next == Driver \/ CreatePost \/ CreateComment

Spec == Init /\ [][Next]_vars

\* ------------------------------------------------- failures of the environment
\* engine.checkpoint() fails with an I/O error, before it wrote anything or
\* while it was writing the database file; the journal keeps the changes.
\* The error leaves the constructor (no handle exists), finish() or the
\* public operation that had committed.
checkpoint_fails ==
    /\ pc \in {"checkpoint", "checkpoint_end"}
    /\ calls' = IF pc = "checkpoint" THEN Append(calls, "checkpoint") ELSE calls
    /\ engine_misuse' = (engine_misuse \/ m_engine # "live")
    /\ IF ckpt_for = "open"
       THEN /\ pc' = "nohandle"
            /\ m_engine' = "null"
            /\ ret' = Result("open", "IOError", 0, 0, <<>>, <<>>)
       ELSE /\ pc' = "return"
            /\ ret' = [ret EXCEPT !.err = "IOError"]
            /\ UNCHANGED m_engine
    /\ ckpt_for' = ""
    /\ reopen_kind' = ""
    /\ UNCHANGED <<files, m_open, in_txn, txn_locals, history>>
    /\ UNCHANGED <<journal_size, scopes, thread_vars>>

\* engine.commit() fails with an I/O error: the exception is thrown inside
\* the try block, after the scopes of the handles have ended and the master
\* block was written back; the catch block calls engine.rollback() and throws
\* the error again.  Nothing of the transaction reaches the journal.
commit_fails ==
    /\ pc = "fn_returned"
    /\ fn_res.err = ""
    /\ UseEngine
    /\ in_txn' = FALSE
    /\ calls' = calls \o <<"commit_failed", "rollback">>
    /\ ret' = [Returned(fn_res) EXCEPT !.err = "IOError"]
    /\ failed_id' = IF fn_res.op = "create_post" THEN fn_res.id ELSE failed_id
    /\ last_created' = NoResult
    /\ fn_res' = NoResult
    /\ txn' = EmptyFile
    /\ master' = ZeroMaster
    /\ master_changed' = FALSE
    /\ pc' = "return"
    /\ UNCHANGED <<files, m_open, m_engine, ckpt_for, last_committed, created_ids,
                   reopen_kind>>
    /\ wrote_master' = writes_block0(master_changed)
    /\ handles' = end_block_scope(handles)
    /\ held_at_end' = held_at_end \cup end_block_scope(handles)
    /\ UNCHANGED <<journal_size, thread_vars>>

\* The path of the database names a file that another program wrote.
foreign_file ==
    /\ pc = "nohandle"
    /\ ~journal_exists
    /\ db_file \notin ForeignFiles
    /\ \E file \in ForeignFiles : db_file' = file
    /\ ret' = NoResult
    /\ UNCHANGED <<journal_exists, journal, pc, m_open, m_engine, in_txn, txn_locals,
                   ckpt_for, calls, history, reopen_kind, engine_misuse>>
    /\ UNCHANGED <<journal_size, scopes, thread_vars>>

NextFaults == Next \/ checkpoint_fails \/ commit_fails \/ foreign_file

SpecFaults == Init /\ [][NextFaults]_vars

\* ------------------------------------------------------ the end of the ids
\* A database file in which all ids but the last two are used: the master
\* block holds next_post_id = 2^64 - 2.  Of the posts the one stored last is
\* in the model.  The path names this file or no file yet.
WrapFile ==
    LET start == [InitialFile EXCEPT !.master.next_post_id = u64_top(3)]
        stored == create_post(start, start.master, CHOOSE in \in PostInputs : TRUE,
                              1000, "none")
    IN  write_back(stored.blocks, stored.master, stored.changed)

InitWrap ==
    /\ db_file \in {EmptyFile, WrapFile}
    /\ journal_exists = FALSE
    /\ journal = <<>>
    /\ pc = "nohandle"
    /\ m_open = FALSE
    /\ m_engine = "null"
    /\ in_txn = FALSE
    /\ txn = EmptyFile
    /\ master = ZeroMaster
    /\ master_changed = FALSE
    /\ fn_res = NoResult
    /\ ret = NoResult
    /\ ckpt_for = ""
    /\ calls = <<>>
    /\ last_committed = EmptyFile
    /\ created_ids = <<>>
    /\ last_created = NoResult
    /\ failed_id = 0
    /\ reopen_kind = ""
    /\ engine_misuse = FALSE
    /\ journal_size = 0
    /\ handles = {}
    /\ held_at_end = {}
    /\ wrote_master = FALSE
    /\ gil = 0
    /\ m_mutex = 0
    /\ t_pc = [t \in Threads |-> "nogil"]
    /\ t_op = [t \in Threads |-> ""]
    /\ t_txn = [t \in Threads |-> EmptyFile]
    /\ t_ret = [t \in Threads |-> NoResult]
    /\ overlap = FALSE

SpecWrap == InitWrap /\ [][Next]_vars

NextLarge == Driver \/ CreatePostLarge \/ CreateCommentLarge

SpecLarge == Init /\ [][NextLarge]_vars

\* The posts of the lean specification with comments that differ.
NextComments == Driver \/ CreatePost \/ CreateCommentData

SpecComments == Init /\ [][NextComments]_vars

NextData == Driver \/ CreatePostData \/ CreateCommentData

SpecData == Init /\ [][NextData]_vars

\* ------------------------------------------------------------ host threads
\* The public operations as the extension module exports them: every one
\* runs in py_database::exec, which releases the interpreter lock, locks
\* m_mutex, calls the operation of the database and gives both back in the
\* reverse order.  Each thread runs its transaction in one step of the
\* storage (the steps inside the transaction are those of the single caller
\* above).
ThreadOps == {"create_post", "fetch_frontpage", "finish"}

\* The variables of the single caller that no thread step changes.
caller_vars == <<pc, txn, master, master_changed, fn_res, ret, ckpt_for, calls,
                 last_created, failed_id, reopen_kind, journal_size, scopes>>

\* The threads that are between the lock and the unlock of m_mutex.
InMutex == {t \in Threads : t_pc[t] \in {"locked", "begun", "ended"}}

\* The create_post calls that are on their way to the transaction.
PendingPosts == {t \in Threads : t_op[t] = "create_post" /\ t_pc[t] \in {"released", "locked", "begun"}}

\* A handle that the main thread opened on a new database.
InitThreads ==
    /\ db_file = InitialFile
    /\ journal_exists = TRUE
    /\ journal = <<>>
    /\ pc = "idle"
    /\ m_open = TRUE
    /\ m_engine = "live"
    /\ in_txn = FALSE
    /\ txn = EmptyFile
    /\ master = ZeroMaster
    /\ master_changed = FALSE
    /\ fn_res = NoResult
    /\ ret = NoResult
    /\ ckpt_for = ""
    /\ calls = <<>>
    /\ last_committed = InitialFile
    /\ created_ids = <<>>
    /\ last_created = NoResult
    /\ failed_id = 0
    /\ reopen_kind = "fresh"
    /\ engine_misuse = FALSE
    /\ journal_size = 0
    /\ handles = {}
    /\ held_at_end = {}
    /\ wrote_master = FALSE
    /\ gil = 0
    /\ m_mutex = 0
    /\ t_pc = [t \in Threads |-> "nogil"]
    /\ t_op = [t \in Threads |-> ""]
    /\ t_txn = [t \in Threads |-> EmptyFile]
    /\ t_ret = [t \in Threads |-> NoResult]
    /\ overlap = FALSE

\* A thread takes the interpreter lock: to run Python code, or at the end of
\* exec (the destructor of gil_scoped_release).
gil_acquire(t) ==
    /\ t_pc[t] = "nogil"
    /\ gil = 0
    /\ gil' = t
    /\ t_pc' = [t_pc EXCEPT ![t] = "python"]
    /\ UNCHANGED <<files, m_open, m_engine, in_txn, last_committed, created_ids,
                   engine_misuse, m_mutex, t_op, t_txn, t_ret, overlap, caller_vars>>

\* The interpreter switches to another thread.
gil_yield(t) ==
    /\ t_pc[t] = "python"
    /\ gil' = 0
    /\ t_pc' = [t_pc EXCEPT ![t] = "nogil"]
    /\ UNCHANGED <<files, m_open, m_engine, in_txn, last_committed, created_ids,
                   engine_misuse, m_mutex, t_op, t_txn, t_ret, overlap, caller_vars>>

\* An exec that keeps the interpreter lock while it runs.
exec_release_keeps_gil(t) ==
    /\ t_pc[t] = "python"
    /\ \E op \in ThreadOps :
          /\ op = "create_post" =>
                View.master.next_post_id + Cardinality(PendingPosts) <= MaxPosts
          /\ t_op' = [t_op EXCEPT ![t] = op]
    /\ t_pc' = [t_pc EXCEPT ![t] = "released"]
    /\ t_ret' = [t_ret EXCEPT ![t] = NoResult]
    /\ UNCHANGED <<files, m_open, m_engine, in_txn, last_committed, created_ids,
                   engine_misuse, gil, m_mutex, t_txn, overlap, caller_vars>>

\* Python code calls a method of the Database object: exec starts and
\* gil_scoped_release gives the interpreter lock back.
exec_release(t) ==
    /\ t_pc[t] = "python"
    /\ \E op \in ThreadOps :
          /\ op = "create_post" =>
                View.master.next_post_id + Cardinality(PendingPosts) <= MaxPosts
          /\ t_op' = [t_op EXCEPT ![t] = op]
    /\ gil' = 0
    /\ t_pc' = [t_pc EXCEPT ![t] = "released"]
    /\ t_ret' = [t_ret EXCEPT ![t] = NoResult]
    /\ UNCHANGED <<files, m_open, m_engine, in_txn, last_committed, created_ids,
                   engine_misuse, m_mutex, t_txn, overlap, caller_vars>>

\* An exec that does not wait for the mutex.
exec_lock_unchecked(t) ==
    /\ t_pc[t] = "released"
    /\ m_mutex' = t
    /\ t_pc' = [t_pc EXCEPT ![t] = "locked"]
    /\ UNCHANGED <<files, m_open, m_engine, in_txn, last_committed, created_ids,
                   engine_misuse, gil, t_op, t_txn, t_ret, overlap, caller_vars>>

\* A finish that does not wait for the mutex.
exec_lock_finish_unlocked(t) ==
    /\ t_pc[t] = "released"
    /\ m_mutex = 0 \/ t_op[t] = "finish"
    /\ m_mutex' = IF m_mutex = 0 THEN t ELSE m_mutex
    /\ t_pc' = [t_pc EXCEPT ![t] = "locked"]
    /\ UNCHANGED <<files, m_open, m_engine, in_txn, last_committed, created_ids,
                   engine_misuse, gil, t_op, t_txn, t_ret, overlap, caller_vars>>

\* std::unique_lock locked(m_mutex)
exec_lock(t) ==
    /\ t_pc[t] = "released"
    /\ m_mutex = 0
    /\ m_mutex' = t
    /\ t_pc' = [t_pc EXCEPT ![t] = "locked"]
    /\ UNCHANGED <<files, m_open, m_engine, in_txn, last_committed, created_ids,
                   engine_misuse, gil, t_op, t_txn, t_ret, overlap, caller_vars>>

\* A begin() that reads the database file without the changes of the journal.
thread_begin_stale(t) ==
    /\ t_pc[t] = "locked"
    /\ t_op[t] # "finish"
    /\ IF ~m_open
       THEN /\ t_ret' = [t_ret EXCEPT ![t] = Result(t_op[t], "ShutDown", 0, 0, <<>>, <<>>)]
            /\ t_pc' = [t_pc EXCEPT ![t] = "ended"]
            /\ UNCHANGED <<in_txn, t_txn, overlap, engine_misuse>>
       ELSE /\ UseEngine
            /\ overlap' = (overlap \/ in_txn)
            /\ in_txn' = TRUE
            /\ t_txn' = [t_txn EXCEPT ![t] = db_file]
            /\ t_pc' = [t_pc EXCEPT ![t] = "begun"]
            /\ UNCHANGED t_ret
    /\ UNCHANGED <<files, m_open, m_engine, last_committed, created_ids,
                   gil, m_mutex, t_op, caller_vars>>

\* fn() for an operation that runs in a transaction: the test of m_open and
\* engine.begin().
thread_begin(t) ==
    /\ t_pc[t] = "locked"
    /\ t_op[t] # "finish"
    /\ IF ~m_open
       THEN /\ t_ret' = [t_ret EXCEPT ![t] = Result(t_op[t], "ShutDown", 0, 0, <<>>, <<>>)]
            /\ t_pc' = [t_pc EXCEPT ![t] = "ended"]
            /\ UNCHANGED <<in_txn, t_txn, overlap, engine_misuse>>
       ELSE /\ UseEngine
            /\ overlap' = (overlap \/ in_txn)
            /\ in_txn' = TRUE
            /\ t_txn' = [t_txn EXCEPT ![t] = View]
            /\ t_pc' = [t_pc EXCEPT ![t] = "begun"]
            /\ UNCHANGED t_ret
    /\ UNCHANGED <<files, m_open, m_engine, last_committed, created_ids,
                   gil, m_mutex, t_op, caller_vars>>

\* The transaction of a thread: the storage operation, then the write back
\* and commit() with the checkpoint that may follow, or rollback().
thread_run(t) ==
    /\ t_pc[t] = "begun"
    /\ UseEngine
    /\ \E in \in PostInputs, now \in Times, fault \in Faults, size \in JournalSizes :
          LET outcome == IF t_op[t] = "create_post"
                         THEN create_post(t_txn[t], t_txn[t].master, in, now, fault)
                         ELSE fetch_frontpage(t_txn[t], t_txn[t].master, MaxFetch)
              written == write_back(outcome.blocks, outcome.master, outcome.changed)
          IN  /\ t_ret' = [t_ret EXCEPT ![t] = outcome.res]
              /\ IF outcome.res.err = ""
                 THEN /\ last_committed' = written
                      /\ created_ids' = IF t_op[t] = "create_post"
                                        THEN Append(created_ids, outcome.res.out)
                                        ELSE created_ids
                      /\ IF needs_checkpoint(size)
                         THEN db_file' = written /\ journal' = <<>>
                         ELSE /\ journal' = IF written # View THEN <<written>> ELSE journal
                              /\ UNCHANGED db_file
                 ELSE UNCHANGED <<db_file, journal, last_committed, created_ids>>
    /\ in_txn' = FALSE
    /\ t_txn' = [t_txn EXCEPT ![t] = EmptyFile]
    /\ t_pc' = [t_pc EXCEPT ![t] = "ended"]
    /\ UNCHANGED <<journal_exists, m_open, m_engine, gil, m_mutex, t_op, overlap, caller_vars>>

\* fn() for finish: the checkpoint, the release of the engine and the
\* removal of the journal file.
thread_finish(t) ==
    /\ t_pc[t] = "locked"
    /\ t_op[t] = "finish"
    /\ IF ~m_open
       THEN /\ t_ret' = [t_ret EXCEPT ![t] = Result("finish", "AlreadyClosed", 0, 0, <<>>, <<>>)]
            /\ UNCHANGED <<files, m_open, m_engine, engine_misuse>>
       ELSE /\ UseEngine
            /\ m_open' = FALSE
            /\ db_file' = View
            /\ journal' = <<>>
            /\ m_engine' = "null"
            /\ journal_exists' = FALSE
            /\ t_ret' = [t_ret EXCEPT ![t] = Result("finish", "", 0, 0, <<>>, <<>>)]
    /\ t_pc' = [t_pc EXCEPT ![t] = "ended"]
    /\ UNCHANGED <<in_txn, last_committed, created_ids, gil, m_mutex, t_op, t_txn,
                   overlap, caller_vars>>

\* An exec that unlocks m_mutex only when fn() returned without an error.
exec_unlock_on_success(t) ==
    /\ t_pc[t] = "ended"
    /\ m_mutex' = IF m_mutex = t /\ t_ret[t].err = "" THEN 0 ELSE m_mutex
    /\ t_pc' = [t_pc EXCEPT ![t] = "nogil"]
    /\ UNCHANGED <<files, m_open, m_engine, in_txn, last_committed, created_ids,
                   engine_misuse, gil, t_op, t_txn, t_ret, overlap, caller_vars>>

\* fn() returned or threw: the destructor of the lock unlocks m_mutex; the
\* thread then waits for the interpreter lock.
exec_unlock(t) ==
    /\ t_pc[t] = "ended"
    /\ m_mutex' = IF m_mutex = t THEN 0 ELSE m_mutex
    /\ t_pc' = [t_pc EXCEPT ![t] = "nogil"]
    /\ UNCHANGED <<files, m_open, m_engine, in_txn, last_committed, created_ids,
                   engine_misuse, gil, t_op, t_txn, t_ret, overlap, caller_vars>>

NextThreads ==
    \E t \in Threads :
        \/ gil_acquire(t)
        \/ gil_yield(t)
        \/ exec_release(t)
        \/ exec_lock(t)
        \/ thread_begin(t)
        \/ thread_run(t)
        \/ thread_finish(t)
        \/ exec_unlock(t)

SpecThreads == InitThreads /\ [][NextThreads]_vars

\* The step in which thread t leaves its transaction.  Of the steps of
\* NextThreads only thread_run(t) is one, and thread_run(t) is enabled
\* exactly when t_pc[t] = "begun".
thread_leaves(t) == t_pc[t] = "begun" /\ t_pc' = [t_pc EXCEPT ![t] = "ended"]

\* The threads under a fair scheduling of the two locks: a thread that can
\* take a lock again and again takes it at some time (the locks themselves
\* promise no order); a thread that runs Python code gives the interpreter
\* lock up or calls the database; a thread inside exec goes on.
FairThreads ==
    \A t \in Threads :
        /\ SF_vars(gil_acquire(t))
        /\ SF_vars(exec_lock(t))
        /\ WF_vars(gil_yield(t) \/ exec_release(t))
        /\ WF_vars(thread_begin(t) \/ thread_finish(t) \/ exec_unlock(t))
        /\ WF_t_pc(thread_leaves(t))

SpecThreadsFair == InitThreads /\ [][NextThreads]_vars /\ FairThreads

\* ================================================================ claims
\* What the two read operations return for every argument of the model.
FetchAll(blocks) ==
    [frontpage |-> [k \in FetchCounts |-> fetch_frontpage(blocks, blocks.master, k).res],
     post |-> [id \in PostIds |-> [k \in FetchCounts |->
                  fetch_post(blocks, blocks.master, id, k).res]],
     next_post_id |-> blocks.master.next_post_id]

\* C1: on a fresh database the i-th create_post that succeeds returns the id
\* i, whatever other calls, failed calls and restarts lie between.
C1_IdsInCallOrder ==
    \A i \in 1..Len(created_ids) : created_ids[i] = i

C1_Witness == Len(created_ids) >= 2

\* C2: the committed posts have pairwise distinct ids below next_post_id;
\* next_post_id never decreases from one committed content to the next and
\* grows with every committed create_post.
C2_CommittedIds ==
    /\ \A p \in View.posts : \A q \in View.posts : p.id = q.id => p = q
    /\ \A p \in View.posts : p.id < View.master.next_post_id

C2_CommitStep ==
    /\ View'.master.next_post_id >= View.master.next_post_id
    /\ (pc = "fn_returned" /\ fn_res.op = "create_post" /\ fn_res.err = ""
        /\ pc' \in {"checkpoint", "return"})
       => View'.master.next_post_id > View.master.next_post_id

C3_RollbackLaw ==
    failed_id # 0 =>
        IF ret.op = "create_post" /\ ret.err = ""
        THEN ret.id = failed_id
        ELSE /\ View.master.next_post_id = failed_id
             /\ \A k \in FetchCounts :
                   /\ fetch_post(View, View.master, failed_id, k).res.err = "NotFound"
                   /\ LET entries == fetch_frontpage(View, View.master, k).res.out
                      IN  \A i \in 1..Len(entries) : entries[i].id # failed_id

C3_Witness == failed_id # 0 /\ ret.op = "create_post" /\ ret.err = "" /\ pc = "return"

\* C4: when the storage operation raises, the driver calls rollback() once
\* and commit() never, hands the same error to the caller, and the committed
\* content stays what the last commit wrote.
C4_RollbackOnError ==
    (pc = "return" /\ fn_res.err # "") =>
        /\ calls = <<"begin", "rollback">>
        /\ ret.op = fn_res.op
        /\ ret.err = fn_res.err
        /\ ~in_txn
        /\ View = last_committed

C4_Witness == pc = "return" /\ fn_res.op = "create_post" /\ fn_res.err = "IOError"


AppendedComments(blocks, post_id) ==
    LET list == btree_find(blocks.posts, post_id).comments
    IN  [i \in 1..Len(list) |-> comment_entry(blocks.strings, list[i])]

\* C6: fetch_post returns the comments newest first: of two returned
\* comments the one appended later comes first, and with max_comments >= n
\* the result is all n comments from the newest to the oldest.
C6_CommentsNewestFirst ==
    (pc = "fn_returned" /\ fn_res.op = "fetch_post" /\ fn_res.err = "") =>
        LET appended == AppendedComments(txn, fn_res.id)
            n == Len(appended)
            returned == fn_res.out.comments
        IN  /\ \A i \in 1..Len(returned) : \A j \in 1..Len(returned) :
                  i < j => \E a \in 1..n : \E b \in 1..n :
                              a > b /\ returned[i] = appended[a] /\ returned[j] = appended[b]
            /\ fn_res.k >= n => returned = Reverse(appended)

\* C7: fetch_frontpage returns at most max_posts posts by descending id, the
\* post with the largest id first, and no post for max_posts = 0.
C7_FrontpageNewestFirst ==
    (pc = "fn_returned" /\ fn_res.op = "fetch_frontpage") =>
        LET entries == fn_res.out
        IN  /\ Len(entries) <= fn_res.k
            /\ \A i \in 1..Len(entries) : \A j \in 1..Len(entries) :
                  i < j => entries[i].id > entries[j].id
            /\ entries # <<>> => entries[1].id = Max({p.id : p \in txn.posts})
            /\ fn_res.k = 0 => entries = <<>>


\* C8: what finish() leaves in the database file alone is what was committed:
\* without the journal file, and in a handle opened on such a file, both read
\* operations return what they returned before the shutdown, the master block
\* is verified and not initialized again, and the next id follows the largest.
C8_DurableAfterFinish ==
    /\ ~journal_exists => FetchAll(db_file) = FetchAll(last_committed)
    /\ reopen_kind = "clean" =>
          /\ pc # "init_master_block"
          /\ FetchAll(View) = FetchAll(last_committed)
          /\ View.posts # {} =>
                View.master.next_post_id = Max({p.id : p \in View.posts}) + 1

C8_Witness ==
    /\ reopen_kind = "clean"
    /\ pc = "idle"
    /\ m_open
    /\ \E p \in View.posts : p.comments # <<>>

\* C9: a handle opened after the process stopped without finish() presents
\* the content of the last commit, wherever the process stopped: the engine
\* has recovered from the journal when the master block is verified, open()
\* does not fail and does not initialize a database that was initialized.
C9_CrashRecovery ==
    /\ reopen_kind = "recovery" => FetchAll(View) = FetchAll(last_committed)
    /\ pc = "check_master_block" => check_header(View.master) = ""
    /\ pc = "init_master_block" => last_committed = EmptyFile
    /\ ret.op # "open"

C9_Witness ==
    /\ reopen_kind = "recovery"
    /\ pc = "idle"
    /\ m_open
    /\ db_file.torn
    /\ View.posts # {}

\* C10: after finish() no operation starts: run_in_transaction fails with
\* ShutDown before engine.begin(), a second finish() fails with
\* AlreadyClosed, and the released engine is never used.
AfterFinish ==
    /\ ~m_open
    /\ \/ pc \in {"idle", "fn", "fn_returned", "return", "release", "remove_journal"}
       \/ pc \in {"checkpoint", "checkpoint_end"} /\ ckpt_for # "open"

C10_NoOperationAfterFinish ==
    /\ ~engine_misuse
    /\ AfterFinish =>
          /\ pc \notin {"fn", "fn_returned"}
          /\ ~in_txn
          /\ pc \in {"checkpoint", "checkpoint_end"} => ckpt_for = "finish"
          /\ pc = "return" =>
                \/ ret.op = "finish" /\ ret.err = "" /\ m_engine = "null"
                \/ ret.op = "finish" /\ ret.err = "AlreadyClosed" /\ calls = <<>>
                \/ ret.op = "run_in_transaction" /\ ret.err = "ShutDown" /\ calls = <<>>

C10_Witness == pc = "return" /\ ret.err = "ShutDown" /\ m_engine = "null"

\* C11: create_comment and fetch_post fail with NotFound when the tree has no
\* post with the given id; the storage has changed nothing when it raises, the
\* driver rolls back and the committed content is that of the last commit.
C11_NotFound ==
    /\ (pc = "fn_returned" /\ fn_res.op \in {"create_comment", "fetch_post"}
        /\ ~btree_has(View.posts, fn_res.id)) =>
          /\ fn_res.err = "NotFound"
          /\ txn = View
          /\ ~master_changed
    /\ (pc = "return" /\ fn_res.err = "NotFound") =>
          /\ ret.err = "NotFound"
          /\ calls = <<"begin", "rollback">>
          /\ View = last_committed

C11_Witness ==
    /\ pc = "return"
    /\ fn_res.op = "create_comment"
    /\ fn_res.err = "NotFound"
    /\ View.posts = {}

C20_HandlesReleased ==
    /\ held_at_end = {}
    /\ ~in_txn => handles = {}

C20_Witness ==
    /\ pc = "return"
    /\ fn_res.op = "create_comment"
    /\ fn_res.err = "IOError"
    /\ calls = <<"begin", "rollback">>
    /\ handles = {}

\* C14: finish() runs the checkpoint whenever the journal has changes, then
\* releases the engine and the files and only then removes the journal file;
\* the journal file is never removed while it holds changes, and it stays on
\* disk with its changes when the checkpoint fails.
C14_ReleaseOrder ==
    /\ pc \in {"release", "remove_journal"} => ~journal_has_changes
    /\ pc = "remove_journal" => m_engine = "null"
    /\ (pc = "return" /\ ret.op = "finish" /\ ret.err = "IOError") =>
          /\ journal_exists
          /\ journal_has_changes
          /\ View = last_committed

C14_RemoveStep ==
    (journal_exists /\ ~journal_exists') =>
        /\ ~journal_has_changes
        /\ m_engine = "null"
        /\ ret.op = "finish"

C14_JournalRemoval == [](C14_ReleaseOrder) /\ [][C14_RemoveStep]_vars

C14_Witness ==
    /\ pc = "return"
    /\ ret.op = "finish"
    /\ ret.err = "IOError"
    /\ db_file.torn
    /\ View.posts # {}

\* C15: open() initializes the master block exactly when the engine reports
\* the size 0 and verifies it otherwise; after the initialization the file has
\* one block, block 0 holds the magic "BLABBER_DB", the version 1, the next
\* post id 1 and empty containers, this content is committed and the journal
\* has no changes left.
C15_Initialization ==
    /\ pc = "init_master_block" => View.size = 0
    /\ pc = "check_master_block" => View.size > 0
    /\ (pc = "opened" /\ calls = <<"begin", "commit", "checkpoint">>) =>
          /\ ~journal_has_changes
          /\ last_committed = db_file
          /\ db_file.size = 1
          /\ ~db_file.torn
          /\ db_file.master = [magic |-> "BLABBER_DB", version |-> 1, next_post_id |-> 1]
          /\ db_file.posts = {}
          /\ db_file.strings = <<>>

C15_Witness ==
    /\ pc = "opened"
    /\ calls = <<"begin", "commit", "checkpoint">>
    /\ reopen_kind = "recovery"

\* C16: open() of a file that is not empty fails with InvalidFormat when the
\* magic of block 0 is not "BLABBER_DB", whatever the version, and with
\* UnsupportedVersion when the magic matches and the version is not 1; then
\* no handle exists and the database file is what it was.
C16_HeaderErrors ==
    /\ (ret.op = "open" /\ ret.err \in {"InvalidFormat", "UnsupportedVersion"}) =>
          /\ pc = "nohandle"
          /\ ~m_open
          /\ m_engine = "null"
          /\ db_file \in ForeignFiles
          /\ ret.err = "InvalidFormat" <=> View.master.magic # "BLABBER_DB"
          /\ ret.err = "UnsupportedVersion" <=>
                (View.master.magic = "BLABBER_DB" /\ View.master.version # 1)
    /\ (m_open \/ pc = "opened") =>
          (View.master.magic = "BLABBER_DB" /\ View.master.version = 1)

C16_VerifyStep == pc = "check_master_block" => db_file' = db_file

C16_RejectsForeignFiles == [](C16_HeaderErrors) /\ [][C16_VerifyStep]_vars

C16_Witness ==
    /\ ret.op = "open"
    /\ ret.err = "InvalidFormat"
    /\ View.master.version # 1
    /\ pc = "nohandle"

\* C17: once the initialization is committed, block 0 of every committed
\* content is a valid master block (magic "BLABBER_DB", version 1), and so is
\* the copy a transaction writes back: no operation, whether it succeeds or
\* fails, changes the header.
C17_ValidMasterBlock ==
    /\ View.size > 0 => (View.master.magic = "BLABBER_DB" /\ View.master.version = 1)
    /\ last_committed.size > 0 =>
          (last_committed.master.magic = "BLABBER_DB" /\ last_committed.master.version = 1)
    /\ in_txn => (master.magic = "BLABBER_DB" /\ master.version = 1)

C17_Witness ==
    /\ pc = "return"
    /\ ret.op = "create_post"
    /\ ret.err = ""
    /\ View.master.next_post_id = 3
    /\ View.master.magic = "BLABBER_DB"

NewBlobs == Len(txn.strings) - Len(View.strings)

\* The number of the given strings that are longer than their capacity.
LongStrings(pairs) == Cardinality({i \in DOMAIN pairs : Len(pairs[i][1]) > pairs[i][2]})

\* C19: the user (capacity 15) and the title (capacity 31) that create_post
\* stores and the user (capacity 15) that create_comment stores are inline
\* exactly when they are at most as long as the capacity and heap references
\* exactly when they are longer; a string of exactly the capacity is inline
\* and no blob is allocated for it.
C19_InlineUpToCapacity ==
    /\ (pc = "fn_returned" /\ fn_res.op = "create_post" /\ fn_res.err = "") =>
          LET stored == btree_find(txn.posts, fn_res.id)
          IN  /\ stored.user.kind = "inline" <=> Len(fn_res.in.user) <= 15
              /\ stored.user.kind = "heap" <=> Len(fn_res.in.user) > 15
              /\ stored.title.kind = "inline" <=> Len(fn_res.in.title) <= 31
              /\ stored.title.kind = "heap" <=> Len(fn_res.in.title) > 31
              /\ NewBlobs = 1 + LongStrings(<< <<fn_res.in.user, 15>>, <<fn_res.in.title, 31>> >>)
    /\ (pc = "fn_returned" /\ fn_res.op = "create_comment" /\ fn_res.err = "") =>
          LET list == btree_find(txn.posts, fn_res.id).comments
              stored == list[Len(list)]
          IN  /\ stored.user.kind = "inline" <=> Len(fn_res.in.user) <= 15
              /\ stored.user.kind = "heap" <=> Len(fn_res.in.user) > 15
              /\ NewBlobs = 1 + LongStrings(<< <<fn_res.in.user, 15>> >>)

C19_Witness ==
    /\ pc = "fn_returned"
    /\ fn_res.op = "create_post"
    /\ fn_res.err = ""
    /\ Len(fn_res.in.title) = 31
    /\ btree_find(txn.posts, fn_res.id).title.kind = "inline"
    /\ NewBlobs = 1

\* C12: at most one host thread at a time is between the lock and the unlock
\* of the mutex, and it is the one that holds the mutex; begin() is never
\* called while a transaction is open and at most one transaction is open.
C12_MutualExclusion ==
    /\ Cardinality(InMutex) <= 1
    /\ \A t \in InMutex : m_mutex = t
    /\ ~overlap
    /\ Cardinality({t \in Threads : t_pc[t] = "begun"}) <= 1
    /\ in_txn <=> \E t \in Threads : t_pc[t] = "begun"

C12_Witness ==
    \E t \in Threads : \E u \in Threads :
        /\ t_pc[t] = "begun"
        /\ t_pc[u] = "released"
        /\ t_op[u] = "create_post"
        /\ created_ids # <<>>

\* The string arguments of a create_post or a create_comment.
StringArgs(in) == {in[f] : f \in DOMAIN in}

\* C22: create_post and create_comment fail with StringTooLarge and are
\* rolled back whenever one of their string arguments has more than 2^32 - 1
\* bytes, and the heap gets no blob of such a string.
C22_StringTooLarge ==
    /\ (pc = "fn_returned" /\ fn_res.op \in {"create_post", "create_comment"}
        /\ fn_res.err \notin {"NotFound", "ClockError", "IdSpaceExhausted"}
        /\ \E str \in StringArgs(fn_res.in) : exceeds_u32(str)) =>
          /\ fn_res.err = "StringTooLarge"
          /\ \A i \in (Len(View.strings) + 1)..Len(txn.strings) :
                \A str \in StringArgs(fn_res.in) :
                    exceeds_u32(str) => txn.strings[i] # narrow_u32(str)
    /\ (pc = "return" /\ fn_res.err = "StringTooLarge") =>
          /\ calls = <<"begin", "rollback">>
          /\ View = last_committed

\* The public operations that run in run_in_transaction.
TransactionOps == {"create_post", "create_comment", "fetch_frontpage", "fetch_post", "dump"}

\* C24: every error that a public operation surfaces from run_in_transaction
\* comes with a call of engine.rollback(), and the writes of the operation are
\* not visible afterwards (the post of a failed create_post does not exist).
C24_ErrorImpliesRollback ==
    (pc = "return" /\ ret.op \in TransactionOps /\ ret.err # "") =>
        /\ calls # <<>>
        /\ calls[Len(calls)] = "rollback"
        /\ ret.op = "create_post" => ~btree_has(View.posts, ret.id)

\* C25: every engine.begin() of run_in_transaction is followed, before the
\* operation returns or throws, by exactly one of a successful commit() or a
\* rollback(); no rollback follows a successful commit, and no transaction
\* is open when the next one begins.
C25_BeginCommitOrRollback ==
    /\ (pc = "return" /\ ret.op \in TransactionOps) =>
          /\ calls \in { <<"begin", "commit">>, <<"begin", "commit", "checkpoint">>,
                         <<"begin", "rollback">>,
                         <<"begin", "commit_failed", "rollback">> }
          /\ ~in_txn
    /\ pc \in {"fn", "fn_returned"} => (calls = <<"begin">> /\ in_txn)
    /\ pc = "idle" => ~in_txn

C25_Witness ==
    /\ pc = "return"
    /\ ret.op = "create_comment"
    /\ calls = <<"begin", "commit_failed", "rollback">>

\* C26: a transaction executes the write of block 0 exactly when fn returned
\* without an error and the change flag of the master fired; the write takes
\* place when only the handle of block 0 is left (the store and the allocator
\* are dropped) and before engine.commit(), which then commits the in-memory
\* master; without the write block 0 stays what it was.
C26_WriteBackIffChanged ==
    [][(pc = "fn_returned" /\ pc' \in {"return", "checkpoint"}) =>
          /\ wrote_master' = (fn_res.err = "" /\ master_changed)
          /\ wrote_master' =>
                /\ handles = {"first_block"}
                /\ calls = <<"begin">>
                /\ calls'[2] \in {"commit", "commit_failed"}
                /\ calls'[2] = "commit" => View'.master = master
          /\ ~wrote_master' => View'.master = View.master]_vars

C26_Witness ==
    /\ pc = "return"
    /\ ret.op = "create_comment"
    /\ ret.err = ""
    /\ wrote_master

\* The public operations that only read.
ReadOps == {"fetch_frontpage", "fetch_post", "dump"}

\* C27: when fetch_frontpage, fetch_post or dump has run, successful or not,
\* the transaction sees the blocks and the master block it started with and
\* the change flag has not fired; block 0 is not written, and the committed
\* state (next_post_id, the posts with their fields and comment lists, the
\* strings) is after the operation what it was before.
C27_ReadState ==
    /\ (pc = "fn_returned" /\ fn_res.op \in ReadOps) =>
          /\ txn = View
          /\ master = View.master
          /\ ~master_changed
    /\ (pc \in {"return", "checkpoint", "checkpoint_end"} /\ ret.op \in ReadOps) =>
          ~wrote_master

C27_ReadStep ==
    (fn_res.op \in ReadOps \/ ret.op \in ReadOps \/ ret'.op \in ReadOps) => View' = View

C27_ReadsLeaveState == [](C27_ReadState) /\ [][C27_ReadStep]_vars

C27_Witness ==
    /\ pc = "return"
    /\ ret.op = "fetch_frontpage"
    /\ ret.err = ""
    /\ Cardinality(View.posts) = 2
    /\ TotalComments(View.posts) > 0

\* C28: a successful create_comment on post p appends one comment to the
\* list of p and leaves one entry with the key p in the tree; next_post_id,
\* the number of posts, the other fields of p and every other post with its
\* comment list are what they were.
C28_AppendsOneComment ==
    (pc = "fn_returned" /\ fn_res.op = "create_comment" /\ fn_res.err = "") =>
        /\ btree_has(View.posts, fn_res.id)
        /\ Cardinality({q \in txn.posts : q.id = fn_res.id}) = 1
        /\ LET old_post == btree_find(View.posts, fn_res.id)
               new_post == btree_find(txn.posts, fn_res.id)
           IN  /\ Len(new_post.comments) = Len(old_post.comments) + 1
               /\ SubSeq(new_post.comments, 1, Len(old_post.comments)) = old_post.comments
               /\ [new_post EXCEPT !.comments = old_post.comments] = old_post
               /\ txn.posts \ {new_post} = View.posts \ {old_post}
        /\ Cardinality(txn.posts) = Cardinality(View.posts)
        /\ master.next_post_id = View.master.next_post_id

C28_Witness ==
    /\ pc = "fn_returned"
    /\ fn_res.op = "create_comment"
    /\ fn_res.err = ""
    /\ Cardinality(View.posts) = 2
    /\ Len(btree_find(View.posts, fn_res.id).comments) = 1

\* The elements of a sequence with their multiplicity.
BagOf(seq) == [x \in {seq[i] : i \in DOMAIN seq} |-> Cardinality({i \in DOMAIN seq : seq[i] = x})]

\* C29: fetch_post with max_comments = k on a post with n comments returns
\* min(k, n) comments, and these are the min(k, n) comments that were
\* appended last; for k = 0 it returns no comment.
C29_MostRecentComments ==
    (pc = "fn_returned" /\ fn_res.op = "fetch_post" /\ fn_res.err = "") =>
        LET appended == AppendedComments(txn, fn_res.id)
            n == Len(appended)
            returned == fn_res.out.comments
        IN  /\ Len(returned) = Min({fn_res.k, n})
            /\ BagOf(returned) = BagOf(SubSeq(appended, n - Len(returned) + 1, n))
            /\ fn_res.k = 0 => returned = <<>>

C29_Witness ==
    /\ pc = "fn_returned"
    /\ fn_res.op = "fetch_post"
    /\ fn_res.err = ""
    /\ fn_res.k = 1
    /\ LET appended == AppendedComments(txn, fn_res.id)
       IN  Len(appended) = 2 /\ appended[1] # appended[2]

Recoverable == {"NotFound", "StringTooLarge", "ClockError", "IdSpaceExhausted"}

\* C21: when an operation of a thread failed with a recoverable error, no
\* transaction is open and the handle is open with its engine; the thread
\* leaves exec without m_mutex; and the failed transaction left the files,
\* the handle and the committed posts and ids as they were before it.
C21_State ==
    \A t \in Threads :
        /\ (t_pc[t] = "ended" /\ t_ret[t].err \in Recoverable) =>
              (~in_txn /\ m_open /\ m_engine = "live" /\ ~overlap)
        /\ (t_pc[t] \in {"nogil", "python"} /\ t_ret[t].err \in Recoverable) =>
              m_mutex # t

C21_Step ==
    \A t \in Threads :
        (t_pc[t] \in {"locked", "begun"} /\ t_pc'[t] \in {"begun", "ended"}
         /\ t_ret'[t].err \in Recoverable) =>
            UNCHANGED <<files, m_open, m_engine, last_committed, created_ids>>

C23_Order ==
    /\ \A t \in Threads :
          /\ t_pc[t] \in {"released", "locked", "begun", "ended"} => gil # t
          /\ t_pc[t] \in {"nogil", "python"} => m_mutex # t
          /\ gil = t <=> t_pc[t] = "python"
    /\ ENABLED NextThreads

C37_OpenEndsTransaction ==
    (pc = "opened" \/ (ret.op = "open" /\ ret.err # "")) =>
        \E i \in DOMAIN calls :
            /\ calls[i] \in {"commit", "rollback"}
            /\ \E j \in 1..(i - 1) : calls[j] = "begin"

\* C36: when the checkpoint inside finish() fails, the handle is closed all
\* the same: the open flag is clear, the engine is not released and the
\* journal file with its changes is on disk; every later operation fails with
\* ShutDown and a later finish() with AlreadyClosed, and none of them touches
\* the files or the engine.
C36_FailedFinish ==
    (pc = "return" /\ ret.op = "finish" /\ ret.err = "IOError") =>
        /\ ~m_open
        /\ m_engine = "live"
        /\ journal_exists
        /\ journal # <<>>

C36_ClosedStep ==
    (pc = "idle" /\ ~m_open /\ pc' # "nohandle") =>
        /\ pc' = "return"
        /\ ret'.err = IF ret'.op = "finish" THEN "AlreadyClosed" ELSE "ShutDown"
        /\ UNCHANGED <<files, m_open, m_engine, in_txn>>

C36_FinishClosesFirst == [](C36_FailedFinish) /\ [][C36_ClosedStep]_vars

\* A second finish() after the one whose checkpoint failed.
C36_Witness ==
    /\ pc = "return"
    /\ ret.op = "finish"
    /\ ret.err = "AlreadyClosed"
    /\ m_engine = "live"
    /\ journal # <<>>

\* C32: the create_post that reads next_post_id = 2^64 - 1 returns the id
\* 2^64 - 1 and stores next_post_id = 0; with next_post_id = 0 every
\* create_post fails with IdSpaceExhausted and changes nothing, and
\* next_post_id stays 0; no post has the id 0 and no id is returned twice.
C32_State ==
    /\ (pc = "fn_returned" /\ fn_res.op = "create_post") =>
          /\ (View.master.next_post_id = u64_top(1) /\ fn_res.err = "") =>
                /\ fn_res.out = u64_top(1)
                /\ btree_has(txn.posts, u64_top(1))
                /\ master.next_post_id = 0
          /\ View.master.next_post_id = 0 =>
                /\ fn_res.err = "IdSpaceExhausted"
                /\ txn = View
                /\ master = View.master
                /\ ~master_changed
          /\ fn_res.err = "IdSpaceExhausted" => View.master.next_post_id = 0
    /\ ~btree_has(View.posts, 0)
    /\ \A i \in DOMAIN created_ids : \A j \in DOMAIN created_ids :
          i # j => created_ids[i] # created_ids[j]
    /\ \A i \in DOMAIN created_ids : created_ids[i] # 0

C32_Step ==
    (View.size > 0 /\ View.master.next_post_id = 0) =>
        /\ View'.master.next_post_id = 0
        /\ View'.posts = View.posts

C32_IdWrapAround == [](C32_State) /\ [][C32_Step]_vars

\* A create_post has failed with IdSpaceExhausted after the one that
\* returned 2^64 - 1.
C32_Witness ==
    /\ pc = "return"
    /\ ret.op = "create_post"
    /\ ret.err = "IdSpaceExhausted"
    /\ created_ids # <<>>
    /\ created_ids[Len(created_ids)] = u64_top(1)

ResolvesTo(h, val, str) ==
    val.kind = "heap" => (val.ref \in 1..Len(h) /\ h[val.ref] = str)

\* The heap references of the records of a tree.
HeapRefs(posts) ==
    UNION { {p.content}
            \cup {v.ref : v \in {w \in {p.user, p.title} : w.kind = "heap"}}
            \cup UNION { {p.comments[i].content}
                         \cup (IF p.comments[i].user.kind = "heap"
                               THEN {p.comments[i].user.ref} ELSE {})
                         : i \in DOMAIN p.comments }
            : p \in posts }

C33_State ==
    /\ \A t \in Threads :
          t_pc[t] = "begun" => (m_mutex = t /\ t_txn[t] = View /\ View = last_committed)
    /\ \A i \in DOMAIN created_ids : created_ids[i] = i

C33_Step ==
    /\ View' # View =>
          /\ m_mutex \in Threads
          /\ t_pc[m_mutex] = "begun"
          /\ t_pc'[m_mutex] = "ended"
          /\ t_ret'[m_mutex].err = ""
    /\ \A t \in Threads :
          (t_pc[t] = "begun" /\ t_pc'[t] = "ended") =>
              /\ t_ret'[t].op = "fetch_frontpage" =>
                    t_ret'[t] = fetch_frontpage(View, View.master, MaxFetch).res
              /\ (t_ret'[t].op = "create_post" /\ t_ret'[t].err = "") =>
                    /\ t_ret'[t].out = View.master.next_post_id
                    /\ ~btree_has(View.posts, t_ret'[t].out)
                    /\ btree_has(View'.posts, t_ret'[t].out)
                    /\ View'.master.next_post_id = u64_inc(View.master.next_post_id)
              /\ t_ret'[t].err # "" => View' = View

C33_SerialEquivalence == [](C33_State) /\ [][C33_Step]_vars

\* A transaction of one thread sees the post that another thread committed
\* to the journal while the first was waiting for the mutex.
C33_Witness ==
    \E t \in Threads : \E u \in Threads \ {t} :
        /\ t_pc[t] = "begun"
        /\ t_txn[t].posts # {}
        /\ journal # <<>>
        /\ db_file.posts = {}
        /\ t_ret[u].op = "create_post"
        /\ t_ret[u].err = ""

\* C35: an operation that races with finish() runs its whole transaction on
\* the open handle with its engine, or it starts after finish() and fails
\* with ShutDown; the open flag, the engine and the files change only in a
\* step of the thread that holds m_mutex, and a released engine is never used.
C35_State ==
    /\ ~engine_misuse
    /\ \A t \in Threads :
          /\ t_pc[t] \in {"locked", "begun", "ended"} => m_mutex = t
          /\ t_pc[t] = "begun" => (m_open /\ m_engine = "live")
          /\ t_ret[t].err = "ShutDown" => (~m_open /\ m_engine = "null")
    /\ m_open <=> m_engine = "live"

C35_Step ==
    (m_open' # m_open \/ m_engine' # m_engine \/ files' # files \/ in_txn' # in_txn) =>
        /\ m_mutex \in Threads
        /\ t_pc[m_mutex] \in {"locked", "begun"}
        /\ t_pc'[m_mutex] # t_pc[m_mutex]

C35_FinishRace == [](C35_State) /\ [][C35_Step]_vars

\* One thread failed with ShutDown after the finish() of another thread,
\* which came after a create_post that committed.
C35_Witness ==
    \E t \in Threads : \E u \in Threads \ {t} :
        /\ t_ret[t].err = "ShutDown"
        /\ t_op[u] = "finish"
        /\ t_ret[u].op = "finish"
        /\ t_ret[u].err = ""
        /\ created_ids # <<>>

====
